---------------------------- MODULE Spec2Model ----------------------------
(***************************************************************************)
(* A model of the openalex-content-api workers.                            *)
(*                                                                         *)
(* The repository holds two Cloudflare workers with the same pipeline:     *)
(*   - the path-keyed worker   GET /works/{id}/best_oa_location/{kind}     *)
(*     (src/src/index.ts), called "works" below;                           *)
(*   - the format-query worker GET /work/{id}?format={kind}                *)
(*     (the TypeScript held in src/schema.sql from line 33), called "work".*)
(*                                                                         *)
(* One request is followed from the call of fetch() to its Response (the   *)
(* workers keep nothing from one request to the next).  Every await on an  *)
(* external collaborator (D1 credential store, OpenAlex catalog, DynamoDB  *)
(* index, R2 primary tier, S3 backup tier) is a suspension point: the      *)
(* action named after the reply runs the handler's code from that await up *)
(* to the next await or the return.                                        *)
(*                                                                         *)
(* JavaScript strings are TLA+ strings; TLC evaluates Len, SubSeq and \o   *)
(* on them, which is what the string operators below are built from.       *)
(***************************************************************************)
EXTENDS Integers, Sequences, FiniteSets, TLC

(***************************************************************************)
(* JavaScript values and string primitives                                 *)
(***************************************************************************)

\* null / undefined, kept apart from every string the model uses
Null == "<null>"

CharAt(s, i) == SubSeq(s, i, i)

\* String.prototype.startsWith
StartsWith(s, p) == Len(s) >= Len(p) /\ SubSeq(s, 1, Len(p)) = p

\* String.prototype.indexOf for a one-character needle: 0-based, -1 if absent
IndexOf(s, c) ==
    IF \E i \in 1..Len(s) : CharAt(s, i) = c
    THEN (CHOOSE i \in 1..Len(s) :
              /\ CharAt(s, i) = c
              /\ \A j \in 1..(i - 1) : CharAt(s, j) # c) - 1
    ELSE -1

\* String.prototype.slice(from) and slice(from, to), 0-based, to exclusive
SliceFrom(s, from) == SubSeq(s, from + 1, Len(s))
Slice(s, from, to) == SubSeq(s, from + 1, to)

\* whether sub occurs in s (String.prototype.includes)
Includes(s, sub) ==
    \E i \in 1..(Len(s) - Len(sub) + 1) : SubSeq(s, i, i + Len(sub) - 1) = sub

LowerLetters == "abcdefghijklmnopqrstuvwxyz"
UpperLetters == "ABCDEFGHIJKLMNOPQRSTUVWXYZ"
DigitChars == "0123456789"

IsDigit(c) == Len(c) = 1 /\ IndexOf(DigitChars, c) >= 0
IsLetter(c) == Len(c) = 1 /\ (IndexOf(LowerLetters, c) >= 0 \/ IndexOf(UpperLetters, c) >= 0)

UpperChar(c) ==
    IF IndexOf(LowerLetters, c) >= 0
    THEN CharAt(UpperLetters, IndexOf(LowerLetters, c) + 1)
    ELSE c

LowerChar(c) ==
    IF IndexOf(UpperLetters, c) >= 0
    THEN CharAt(LowerLetters, IndexOf(UpperLetters, c) + 1)
    ELSE c

RECURSIVE MapChars(_, _)
\* s with every character replaced by its upper-case (up = TRUE) or lower-case form
MapChars(s, up) ==
    IF s = "" THEN ""
    ELSE (IF up THEN UpperChar(CharAt(s, 1)) ELSE LowerChar(CharAt(s, 1)))
             \o MapChars(SliceFrom(s, 1), up)

\* String.prototype.toUpperCase / toLowerCase
ToUpperCase(s) == MapChars(s, TRUE)
ToLowerCase(s) == MapChars(s, FALSE)

IsSpace(c) == c \in {" ", "\t", "\n"}

RECURSIVE TrimStart(_)
TrimStart(s) ==
    IF s # "" /\ IsSpace(CharAt(s, 1)) THEN TrimStart(SliceFrom(s, 1)) ELSE s

RECURSIVE TrimEnd(_)
TrimEnd(s) ==
    IF s # "" /\ IsSpace(CharAt(s, Len(s))) THEN TrimEnd(Slice(s, 0, Len(s) - 1)) ELSE s

\* String.prototype.trim
Trim(s) == TrimEnd(TrimStart(s))

RECURSIVE StripLeadingSlashes(_)
\* path.replace(/^\/+/, "")
StripLeadingSlashes(s) ==
    IF s # "" /\ CharAt(s, 1) = "/" THEN StripLeadingSlashes(SliceFrom(s, 1)) ELSE s

RECURSIVE Split(_, _)
\* String.prototype.split for a one-character separator: "" splits to [""]
Split(s, sep) ==
    LET i == IndexOf(s, sep)
    IN  IF i < 0 THEN <<s>>
        ELSE <<Slice(s, 0, i)>> \o Split(SliceFrom(s, i + 1), sep)

\* the characters of s are all decimal digits, and there is at least one
AllDigits(s) == s # "" /\ \A i \in 1..Len(s) : IsDigit(CharAt(s, i))

\* /^W\d+$/i.test(s)
IsShortCode(s) ==
    /\ Len(s) >= 2
    /\ CharAt(s, 1) \in {"W", "w"}
    /\ AllDigits(SliceFrom(s, 1))

RECURSIVE DigitRun(_)
\* the longest prefix of s made of digits (the greedy \d+ of a regular expression)
DigitRun(s) ==
    IF s # "" /\ IsDigit(CharAt(s, 1))
    THEN CharAt(s, 1) \o DigitRun(SliceFrom(s, 1))
    ELSE ""


(***************************************************************************)
(* new URL(s).pathname, as far as normalizeWorkId needs it: an absolute    *)
(* URL has a scheme (a letter, then letters, digits, "+", "-", ".")        *)
(* followed by ":"; anything else makes the constructor throw (Null here). *)
(* For http(s) the host must be non-empty and the path defaults to "/";    *)
(* for other schemes the text after an optional //authority is the path.   *)
(* Query and fragment are not part of the pathname.  Percent-encoding and  *)
(* dot-segment removal are left out.                                       *)
(***************************************************************************)
IsSchemeChar(c) == IsLetter(c) \/ IsDigit(c) \/ c \in {"+", "-", "."}

HasUrlScheme(s) ==
    LET c == IndexOf(s, ":")
    IN  /\ c > 0
        /\ IsLetter(CharAt(s, 1))
        /\ \A i \in 2..c : IsSchemeChar(CharAt(s, i))

CutAt(s, c) == IF IndexOf(s, c) >= 0 THEN Slice(s, 0, IndexOf(s, c)) ELSE s

UrlPathname(s) ==
    IF ~HasUrlScheme(s) THEN Null
    ELSE LET c      == IndexOf(s, ":")
             scheme == ToLowerCase(Slice(s, 0, c))
             rest   == CutAt(CutAt(SliceFrom(s, c + 1), "#"), "?")
         IN  IF scheme \in {"http", "https"}
             THEN LET a == StripLeadingSlashes(rest)
                      h == IndexOf(a, "/")
                  IN  IF a = "" THEN Null
                      ELSE IF h < 0 THEN "/" ELSE SliceFrom(a, h)
             ELSE IF StartsWith(rest, "//")
             THEN LET a == SliceFrom(rest, 2)
                      h == IndexOf(a, "/")
                  IN  IF h < 0 THEN "" ELSE SliceFrom(a, h)
             ELSE rest

\* String.prototype.lastIndexOf for a one-character needle, 0-based
LastIndexOf(s, c) ==
    IF \E i \in 1..Len(s) : CharAt(s, i) = c
    THEN (CHOOSE i \in 1..Len(s) :
              /\ CharAt(s, i) = c
              /\ \A j \in (i + 1)..Len(s) : CharAt(s, j) # c) - 1
    ELSE -1

\* pathname.match(/\/W\d+$/i): the matched text without its slash, or Null
MatchTrailingShortCode(pathname) ==
    LET k == LastIndexOf(pathname, "/")
    IN  IF k >= 0 /\ IsShortCode(SliceFrom(pathname, k + 1))
        THEN SliceFrom(pathname, k + 1)
        ELSE Null

OpenAlexPrefix == "https://openalex.org/"

\* whether /https:\/\/openalex\.org\/(W\d+)/i matches s at 1-based position i
OpenAlexMatchAt(s, i) ==
    LET n == Len(OpenAlexPrefix)
    IN  /\ i + n + 1 <= Len(s)
        /\ ToLowerCase(SubSeq(s, i, i + n - 1)) = OpenAlexPrefix
        /\ CharAt(s, i + n) \in {"W", "w"}
        /\ IsDigit(CharAt(s, i + n + 1))

\* s.match(/https:\/\/openalex\.org\/(W\d+)/i)[1]: the first match's group, or Null
MatchOpenAlexUrl(s) ==
    IF \E i \in 1..Len(s) : OpenAlexMatchAt(s, i)
    THEN LET i == CHOOSE i \in 1..Len(s) :
                      /\ OpenAlexMatchAt(s, i)
                      /\ \A j \in 1..(i - 1) : ~OpenAlexMatchAt(s, j)
             n == Len(OpenAlexPrefix)
         IN  CharAt(s, i + n) \o DigitRun(SliceFrom(s, i + n))
    ELSE Null

\* normalizeWorkId_works returning the match with its slash (m[0] not sliced)
normalizeWorkId_works_NoSlice(input) ==
    IF input = "" THEN Null
    ELSE LET trimmed == Trim(input)
         IN  IF IsShortCode(trimmed) THEN ToUpperCase(trimmed)
             ELSE LET pathname == UrlPathname(trimmed)
                  IN  IF pathname # Null /\ MatchTrailingShortCode(pathname) # Null
                      THEN ToUpperCase("/" \o MatchTrailingShortCode(pathname))
                      ELSE Null

\* normalizeWorkId of the path-keyed worker
normalizeWorkId_works(input) ==
    IF input = "" THEN Null
    ELSE LET trimmed == Trim(input)
         IN  IF IsShortCode(trimmed) THEN ToUpperCase(trimmed)
             ELSE LET pathname == UrlPathname(trimmed)
                  IN  IF pathname # Null /\ MatchTrailingShortCode(pathname) # Null
                      THEN ToUpperCase(MatchTrailingShortCode(pathname))
                      ELSE Null

\* normalizeWorkId of the format-query worker: one more rule, tried second
normalizeWorkId_work(input) ==
    IF input = "" THEN Null
    ELSE LET trimmed == Trim(input)
         IN  IF IsShortCode(trimmed) THEN ToUpperCase(trimmed)
             ELSE IF StartsWith(trimmed, "https://openalex.org/W")
                     /\ MatchOpenAlexUrl(trimmed) # Null
             THEN ToUpperCase(MatchOpenAlexUrl(trimmed))
             ELSE LET pathname == UrlPathname(trimmed)
                  IN  IF pathname # Null /\ MatchTrailingShortCode(pathname) # Null
                      THEN ToUpperCase(MatchTrailingShortCode(pathname))
                      ELSE Null

normalizeWorkId(endpoint, input) ==
    IF endpoint = "works" THEN normalizeWorkId_works(input)
    ELSE normalizeWorkId_work(input)

(***************************************************************************)
(* Bounds                                                                  *)
(***************************************************************************)

\* the clock read by checkApiKey (new Date()) takes a value in 0..MaxNow
MaxNow == 2

\* identifiers given to normalizeWorkId are made of at most MaxIdTokens pieces
MaxIdTokens == 3

\* location references returned by the catalog are made of at most
\* MaxRefTokens pieces
MaxRefTokens == 3

\* identifiers a download is named after are a foreign-identifier prefix and
\* at most MaxNameTokens pieces
MaxNameTokens == 3

(***************************************************************************)
(* The external collaborators                                              *)
(***************************************************************************)

\* rows of the api_keys table: every other key has no row
ApiKeyRows ==
    [k \in {"k_ok", "k_nocard", "k_exp"} |->
        CASE k = "k_ok"     -> [credit_card_on_file |-> 1, expires_at |-> Null]
          [] k = "k_nocard" -> [credit_card_on_file |-> 0, expires_at |-> Null]
          [] k = "k_exp"    -> [credit_card_on_file |-> 1,
                                expires_at |-> "1970-01-01T00:00:01Z"]]

\* new Date(text).getTime() in seconds, for the timestamps the table holds
DateOf(text) == IF text = "1970-01-01T00:00:01Z" THEN 1 ELSE 0

\* what the catalog may answer to GET /works/{id}?select=id,best_oa_location:
\* a non-success status, a body without best_oa_location, or one whose
\* best_oa_location has the given id (Null: the id is absent)
LocationIds == {Null, "", "x", ":x", "x:", "doi:10.1/a", "pmh:a:b"}
CatalogAnswers ==
    {[ok |-> FALSE, best_oa_location |-> FALSE, id |-> Null],
     [ok |-> TRUE,  best_oa_location |-> FALSE, id |-> Null]}
    \cup {[ok |-> TRUE, best_oa_location |-> TRUE, id |-> l] : l \in LocationIds}

\* the by_native_id index of the two DynamoDB tables: the Items a query
\* returns (Limit 1).  An item's id attribute may be missing (Null).
IndexItems(tableName, nid) ==
    CASE tableName = "harvested-pdf" /\ nid \in {"10.1/a", "10.1a"} -> <<[id |-> "u1"]>>
      [] tableName = "harvested-pdf" /\ nid = "a:b"                 -> <<[id |-> Null]>>
      [] tableName = "grobid-xml"    /\ nid = "10.1/a"              -> <<[id |-> "u2"]>>
      [] OTHER -> <<>>

\* the objects the primary tier may hold, as <<bucket binding, key>>
R2Objects == {<<"PDFS", "u1.pdf">>, <<"GROBID_XML", "u2.xml.gz">>}

\* the statuses the backup tier may answer a signed HEAD or GET with
S3Statuses == {200, 403, 404, 500}

\* the content-type header of a backup-tier GET response (Null: none)
S3ContentTypes == {Null, "binary/octet-stream"}

PDF_S3_BACKUP_BUCKET == "openalex-harvested-pdfs"
GROBID_S3_BACKUP_BUCKET == "openalex-harvested-grobid-xml"

(***************************************************************************)
(* Requests                                                                *)
(***************************************************************************)

\* identifiers put in the {id} place of a path
RawIds == {"W1", "w12", "x9", "", "10.1a", "10.1/a", "10.1%2Fa"}

\* paths sent to the path-keyed worker: accepted shapes, then unknown ones
WorksPaths ==
    {"/works/" \o id \o "/best_oa_location/" \o kind :
        id \in {"W1", "w12", "x9", "", "10.1a"}, kind \in {"pdf", "parsed-pdf"}}
    \cup {"//works/W1/best_oa_location/pdf"}
    \cup {"/works/W1/best_oa_location/xml", "/works/W1/oa/pdf",
          "/item/W1/best_oa_location/pdf", "/works/W1/best_oa_location/pdf/x",
          "/works/W1"}

\* paths sent to the format-query worker: accepted shapes, then unknown ones
WorkPaths ==
    {"/work/" \o id : id \in RawIds}
    \cup {"/work", "/works/W1", "/work/https://openalex.org/W1"}

\* the credentials a request may carry: api_key query parameter, Authorization header
Credentials ==
    {[api_key |-> k, authorization |-> Null] :
        k \in {Null, "k_ok", "k_nocard", "k_exp", "k_unknown"}}
    \cup {[api_key |-> Null,       authorization |-> "Bearer k_ok"],
          [api_key |-> Null,       authorization |-> "Basic k_ok"],
          [api_key |-> "",         authorization |-> "Bearer k_nocard"],
          [api_key |-> "k_nocard", authorization |-> "Bearer k_ok"]}

Request(endpoint, method, path, format, json_, cred) ==
    [endpoint |-> endpoint, method |-> method, path |-> path, format |-> format,
     json |-> json_, api_key |-> cred.api_key, authorization |-> cred.authorization]

\* endpoint: the worker the request is sent to.  format and json are the
\* query parameters of those names (Null: absent).
Requests ==
    {Request("works", "GET", p, Null, j, c) :
        p \in WorksPaths, j \in {Null, "TRUE"}, c \in Credentials}
    \cup
    {Request("work", "GET", p, f, j, c) :
        p \in WorkPaths, f \in {"pdf", "parsed-pdf"}, j \in {Null, "TRUE"},
        c \in Credentials}
    \cup
    {Request("work", "GET", p, f, j, [api_key |-> "k_ok", authorization |-> Null]) :
        p \in {"/work/W1", "/work/10.1a", "/work/x9"}, f \in {Null, "", "xml"},
        j \in {Null, "TRUE"}}
    \cup
    {Request(e, "GET", p, "pdf", "1", [api_key |-> "k_ok", authorization |-> Null]) :
        e \in {"works", "work"}, p \in {"/works/W1/best_oa_location/pdf", "/work/W1"}}
    \cup
    {Request(e, "POST", p, "pdf", Null, [api_key |-> "k_ok", authorization |-> Null]) :
        e \in {"works", "work"}, p \in {"/works/W1/best_oa_location/pdf", "/work/W1"}}

(***************************************************************************)
(* Responses                                                               *)
(***************************************************************************)

NoHeaders ==
    [ContentType |-> Null, ContentDisposition |-> Null,
     CacheControl |-> Null, ContentLength |-> Null]

\* no Response has been returned yet
NoResponse == [status |-> 0, mode |-> "none", body |-> Null, headers |-> NoHeaders]

\* whether resp is a Response (and not the NoResponse placeholder)
Returned(resp) == resp.mode # "none"

\* new Response(text, { status })
TextResponse(status, text) ==
    [status |-> status, mode |-> "text", body |-> text, headers |-> NoHeaders]

\* json(status, data)
json(status, data) ==
    [status |-> status, mode |-> "json", body |-> data,
     headers |-> [NoHeaders EXCEPT !.ContentType = "application/json",
                                   !.CacheControl = "no-store"]]

\* jsonOrText(wantJson, status, obj): in text mode only obj.error is sent
\* (an obj without error would be sent as its JSON text; no caller passes one)
jsonOrText(wantJson_, status, obj) ==
    IF wantJson_ THEN json(status, obj)
    ELSE TextResponse(status,
             IF "error" \in DOMAIN obj /\ obj.error # "" THEN obj.error ELSE "{}")

\* the worker threw: the runtime answers for it
Thrown(what) ==
    [status |-> 500, mode |-> "exception", body |-> what, headers |-> NoHeaders]

(***************************************************************************)
(* The handler's pure steps                                                *)
(***************************************************************************)

\* url.pathname.replace(/^\/+/, "").split("/")
PathParts(path) == Split(StripLeadingSlashes(path), "/")

\* ShapeOk without the check of the kind segment
ShapeOk_AnyKind(endpoint, parts) ==
    IF endpoint = "works"
    THEN /\ Len(parts) = 4
         /\ parts[1] = "works"
         /\ parts[3] = "best_oa_location"
    ELSE /\ Len(parts) = 2
         /\ parts[1] = "work"

\* the path shape each worker accepts
ShapeOk(endpoint, parts) ==
    IF endpoint = "works"
    THEN /\ Len(parts) = 4
         /\ parts[1] = "works"
         /\ parts[3] = "best_oa_location"
         /\ parts[4] \in {"pdf", "parsed-pdf"}
    ELSE /\ Len(parts) = 2
         /\ parts[1] = "work"

\* the format query parameter of the format-query worker
FormatOk(format) == format # Null /\ format # "" /\ format \in {"pdf", "parsed-pdf"}

\* the artifact-kind token: last path segment, or the format parameter
KindToken(r, parts) == IF r.endpoint = "works" THEN parts[4] ELSE r.format

\* (url.searchParams.get("json") || "").toLowerCase() === "true"
WantJson(r) == ToLowerCase(IF r.json = Null THEN "" ELSE r.json) = "true"

\* rawId.startsWith("10."): only the format-query worker knows foreign identifiers
IsDoi(endpoint, id) == endpoint = "work" /\ StartsWith(id, "10.")

\* ApiKeyOf with the precedence reversed: the Bearer header, else the parameter
ApiKeyOf_HeaderFirst(r) ==
    IF r.authorization # Null /\ StartsWith(r.authorization, "Bearer ")
          /\ SliceFrom(r.authorization, 7) # ""
    THEN SliceFrom(r.authorization, 7)
    ELSE IF r.api_key # Null /\ r.api_key # "" THEN r.api_key
         ELSE Null

\* the credential checkApiKey looks up: the api_key parameter, else a Bearer
\* Authorization header; Null when there is none
ApiKeyOf(r) ==
    IF r.api_key # Null /\ r.api_key # "" THEN r.api_key
    ELSE IF r.authorization # Null /\ StartsWith(r.authorization, "Bearer ")
              /\ SliceFrom(r.authorization, 7) # ""
         THEN SliceFrom(r.authorization, 7)
         ELSE Null

\* checkApiKey without a credential
NoCredential == [valid |-> FALSE, hasCreditCard |-> FALSE, error |-> Null]

\* whether the row's expires_at is set and not after now
Expired(row, now) ==
    /\ row.expires_at # Null
    /\ row.expires_at # ""
    /\ DateOf(row.expires_at) <= now

\* checkApiKey reporting a card for every valid key
checkApiKey_CardIgnored(apiKey, fault, now) ==
    IF fault
    THEN [valid |-> FALSE, hasCreditCard |-> FALSE, error |-> "Database error"]
    ELSE IF apiKey \notin DOMAIN ApiKeyRows
    THEN [valid |-> FALSE, hasCreditCard |-> FALSE, error |-> "API key not found"]
    ELSE IF Expired(ApiKeyRows[apiKey], now)
    THEN [valid |-> FALSE, hasCreditCard |-> FALSE,
          error |-> "API key expired on " \o ApiKeyRows[apiKey].expires_at]
    ELSE [valid |-> TRUE, hasCreditCard |-> TRUE, error |-> Null]

\* checkApiKey once the D1 query has settled: fault = the query rejected
checkApiKey(apiKey, fault, now) ==
    IF fault
    THEN [valid |-> FALSE, hasCreditCard |-> FALSE, error |-> "Database error"]
    ELSE IF apiKey \notin DOMAIN ApiKeyRows
    THEN [valid |-> FALSE, hasCreditCard |-> FALSE, error |-> "API key not found"]
    ELSE IF Expired(ApiKeyRows[apiKey], now)
    THEN [valid |-> FALSE, hasCreditCard |-> FALSE,
          error |-> "API key expired on " \o ApiKeyRows[apiKey].expires_at]
    ELSE [valid |-> TRUE,
          hasCreditCard |-> ApiKeyRows[apiKey].credit_card_on_file # 0,
          error |-> Null]

\* GateResponse without the payment check
GateResponse_NoPaymentCheck(wantJson_, res) ==
    IF ~res.valid
    THEN jsonOrText(wantJson_, 401,
             [error |-> "Invalid or missing API key",
              message |-> IF res.error # Null /\ res.error # "" THEN res.error
                          ELSE "Provide a valid API key in 'api_key' query parameter or 'Authorization' header"])
    ELSE NoResponse

\* GateResponse letting every metadata request pass
GateResponse_MetadataUnchecked(wantJson_, res) ==
    IF wantJson_
    THEN NoResponse
    ELSE IF ~res.valid
    THEN jsonOrText(wantJson_, 401,
             [error |-> "Invalid or missing API key",
              message |-> IF res.error # Null /\ res.error # "" THEN res.error
                          ELSE "Provide a valid API key in 'api_key' query parameter or 'Authorization' header"])
    ELSE IF ~res.hasCreditCard
    THEN jsonOrText(wantJson_, 403,
             [error |-> "Payment required",
              message |-> "A credit card on file is required to download files"])
    ELSE NoResponse

\* the response of the gate for a result that stops the request, else NoResponse
GateResponse(wantJson_, res) ==
    IF ~res.valid
    THEN jsonOrText(wantJson_, 401,
             [error |-> "Invalid or missing API key",
              message |-> IF res.error # Null /\ res.error # "" THEN res.error
                          ELSE "Provide a valid API key in 'api_key' query parameter or 'Authorization' header"])
    ELSE IF ~res.hasCreditCard
    THEN jsonOrText(wantJson_, 403,
             [error |-> "Payment required",
              message |-> "A credit card on file is required to download files"])
    ELSE NoResponse

\* IsMalformed without the check of a trailing colon
IsMalformed_NoTrailingCheck(loc) == IndexOf(loc, ":") <= 0

\* colon <= 0 || colon === locId.length - 1
IsMalformed(loc) ==
    LET colon == IndexOf(loc, ":")
    IN  colon <= 0 \/ colon = Len(loc) - 1

SchemeOf(loc) == Slice(loc, 0, IndexOf(loc, ":"))

\* NativeIdOf cutting at the last colon instead of the first
NativeIdOf_LastColon(loc) == SliceFrom(loc, LastIndexOf(loc, ":") + 1)

NativeIdOf(loc) == SliceFrom(loc, IndexOf(loc, ":") + 1)

TableName(grobid) == IF grobid THEN "grobid-xml" ELSE "harvested-pdf"
FileExt(grobid) == IF grobid THEN ".xml.gz" ELSE ".pdf"
ContentTypeOf(grobid) == IF grobid THEN "application/gzip" ELSE "application/pdf"
R2Bucket(grobid) == IF grobid THEN "GROBID_XML" ELSE "PDFS"
S3Bucket(grobid) == IF grobid THEN GROBID_S3_BACKUP_BUCKET ELSE PDF_S3_BACKUP_BUCKET
FileType(grobid) == IF grobid THEN "Grobid XML" ELSE "PDF"

\* UuidOf falling back to a fixed uuid when the query returned nothing
UuidOf_Default(items) == IF Len(items) > 0 THEN items[1].id ELSE "u1"

\* uuid of the first item of a query result; Null without an item or an id
UuidOf(items) == IF Len(items) > 0 THEN items[1].id ELSE Null

\* r2Key = uuid ? `${uuid}${fileExt}` : undefined
R2KeyOf(id, grobid) == IF id # Null /\ id # "" THEN id \o FileExt(grobid) ELSE Null

\* s3HeadObject taking 403 for "present"
s3HeadObject_ForbiddenPresent(status) == status \in {200, 403}

\* s3HeadObject: only status 200 is "present"
s3HeadObject(status) == status = 200

\* s3GetObject: the response on status 200, else null; s3Resp?.ok is then true
s3GetObject(status) == IF status = 200 THEN [ok |-> TRUE] ELSE [ok |-> FALSE]

UnsafeChars == {"/", "\\", ":", "*", "?", "\"", "<", ">", "|"}

RECURSIVE ReplaceUnsafe_FirstOnly(_)
\* ReplaceUnsafe without the g flag: only the first occurrence is replaced
ReplaceUnsafe_FirstOnly(name) ==
    IF name = "" THEN ""
    ELSE IF CharAt(name, 1) \in UnsafeChars THEN "_" \o SliceFrom(name, 1)
    ELSE CharAt(name, 1) \o ReplaceUnsafe_FirstOnly(SliceFrom(name, 1))

RECURSIVE ReplaceUnsafe(_)
\* name.replace(/[\/\\:*?"<>|]/g, "_")
ReplaceUnsafe(name) ==
    IF name = "" THEN ""
    ELSE (IF CharAt(name, 1) \in UnsafeChars THEN "_" ELSE CharAt(name, 1))
             \o ReplaceUnsafe(SliceFrom(name, 1))

SafeName(name, grobid) == ReplaceUnsafe(name) \o FileExt(grobid)

RECURSIVE EncodeURIComponent(_)
\* encodeURIComponent on the characters a safe name can hold here: "%" and
\* the space are escaped, letters, digits and - _ . are kept
EncodeURIComponent(str) ==
    IF str = "" THEN ""
    ELSE (CASE CharAt(str, 1) = "%" -> "%25"
            [] CharAt(str, 1) = " " -> "%20"
            [] OTHER -> CharAt(str, 1))
             \o EncodeURIComponent(SliceFrom(str, 1))

ContentDisposition(safeName) ==
    "attachment; filename=\"" \o safeName \o "\"; filename*=UTF-8''"
        \o EncodeURIComponent(safeName)

(***************************************************************************)
(* State                                                                   *)
(***************************************************************************)

VARIABLES
    r2,            \* the objects the primary tier holds: a subset of R2Objects
    r2HasHead,     \* whether the R2 binding offers head()
    s3Status,      \* the status the backup tier answers for the artifact
    pc,            \* where the handler is: "idle", the await it is at, or "done"
    req,           \* the request being handled
    rawId, workId, isGrobid, wantJson, isDoi,
    clock,         \* the time checkApiKey read (new Date()), 0 before that
    authResult,    \* what checkApiKey returned
    locId, scheme, nativeId,
    uuid, mappingFound,
    in_r2,
    trace,         \* the calls made for this request, in order
    faults,        \* the collaborators whose call was rejected ("d1", "dynamodb")
    response,      \* the Response returned, NoResponse before that
    replies,       \* the answers the other collaborators may give to a call
    parked,        \* the handler of a second request, suspended at an await
    solo           \* the answers recorded for requests handled alone

\* what no step of a handler changes: the collaborators, and what belongs to
\* other requests
env    == <<r2, r2HasHead, s3Status, replies, parked, solo>>
ident  == <<rawId, workId, isGrobid, wantJson, isDoi>>
ref    == <<locId, scheme, nativeId>>
lookup == <<uuid, mappingFound>>
vars   == <<r2, r2HasHead, s3Status, pc, req, rawId, workId, isGrobid, wantJson,
            isDoi, clock, authResult, locId, scheme, nativeId, uuid, mappingFound,
            in_r2, trace, faults, response, replies, parked, solo>>

\* a call to a collaborator: op on target (bucket, table or Null) with arg
Call(op, target, arg) == [op |-> op, target |-> target, arg |-> arg]

NoRequest ==
    [endpoint |-> Null, method |-> Null, path |-> Null, format |-> Null,
     json |-> Null, api_key |-> Null, authorization |-> Null]

\* the work ids the catalog is asked about (Null: no work id)
WorkIds == {Null, "W1", "W12"}

\* collaborators that may answer a call in any way: the D1 query may reject
\* and the clock reads any time, the catalog gives any answer for any work,
\* the DynamoDB query may reject, a backup GET carries any headers
AnyReply ==
    [d1Fault         |-> BOOLEAN,
     now             |-> 0..MaxNow,
     catalog         |-> [w \in WorkIds |-> CatalogAnswers],
     dynamoFault     |-> BOOLEAN,
     s3ContentType   |-> S3ContentTypes,
     s3ContentLength |-> {Null, "7"}]

\* no second request
NoHandler == [slot |-> 0]

Init ==
    /\ r2 \in SUBSET R2Objects
    /\ r2HasHead \in BOOLEAN
    /\ s3Status \in S3Statuses
    /\ replies = AnyReply
    /\ parked = NoHandler
    /\ solo = <<>>
    /\ pc = "idle"
    /\ req = NoRequest
    /\ rawId = Null /\ workId = Null /\ isGrobid = FALSE /\ wantJson = FALSE
    /\ isDoi = FALSE
    /\ clock = 0
    /\ authResult = NoCredential
    /\ locId = Null /\ scheme = "" /\ nativeId = ""
    /\ uuid = Null /\ mappingFound = FALSE
    /\ in_r2 = FALSE
    /\ trace = <<>>
    /\ faults = {}
    /\ response = NoResponse

\* return a Response
Return(resp) == response' = resp /\ pc' = "done"

\* await a call: log it and suspend at `at`
Await(call, at) == trace' = Append(trace, call) /\ pc' = at /\ response' = response

\* the response fetch() returns before it looks at the identifier, else NoResponse
RouteResponse(r) ==
    IF r.method # "GET" THEN TextResponse(405, "Method Not Allowed")
    ELSE IF ~ShapeOk(r.endpoint, PathParts(r.path)) THEN TextResponse(404, "Not Found")
    ELSE IF r.endpoint = "work" /\ ~FormatOk(r.format)
    THEN TextResponse(400,
             "Bad Request: format query parameter must be 'pdf' or 'parsed-pdf'")
    ELSE NoResponse

\* AfterGate without the bypass: the catalog is asked for every identifier
AfterGate_AlwaysCatalog(doi, wid, nid, grobid) ==
    Await(Call("catalog.fetch", Null, wid), "catalog")

\* the step after the gate let the request pass: the catalog, or for a
\* foreign identifier the index query at once
AfterGate(doi, wid, nid, grobid) ==
    IF doi
    THEN Await(Call("dynamodb.query", TableName(grobid), nid), "dynamodb")
    ELSE Await(Call("catalog.fetch", Null, wid), "catalog")

(***************************************************************************)
(* fetch(req, env) up to its first await: routing, identifier              *)
(* normalization, and checkApiKey up to its D1 query                       *)
(***************************************************************************)
Fetch(r) ==
    /\ pc = "idle"
    /\ req' = r
    /\ UNCHANGED env
    /\ clock' = 0
    /\ authResult' = NoCredential
    /\ faults' = {}
    /\ locId' = Null /\ uuid' = Null /\ mappingFound' = FALSE /\ in_r2' = FALSE
    /\ IF Returned(RouteResponse(r))
       THEN /\ rawId' = Null /\ workId' = Null /\ isGrobid' = FALSE
            /\ wantJson' = FALSE /\ isDoi' = FALSE
            /\ scheme' = "" /\ nativeId' = ""
            /\ trace' = <<>>
            /\ Return(RouteResponse(r))
       ELSE LET parts == PathParts(r.path)
                id    == parts[2]
                doi   == IsDoi(r.endpoint, id)
                wid   == IF doi THEN Null ELSE normalizeWorkId(r.endpoint, id)
                json_ == WantJson(r)
                key   == ApiKeyOf(r)
            IN  /\ rawId' = id
                /\ isGrobid' = (KindToken(r, parts) = "parsed-pdf")
                /\ wantJson' = json_
                /\ isDoi' = doi
                /\ workId' = wid
                /\ scheme' = IF doi THEN "doi" ELSE ""
                /\ nativeId' = IF doi THEN id ELSE ""
                /\ IF ~doi /\ wid = Null
                   THEN /\ trace' = <<>>
                        /\ Return(jsonOrText(json_, 400,
                               [error |-> "Invalid work id", work_id_input |-> id]))
                   ELSE IF key = Null
                   THEN /\ trace' = <<Call("checkApiKey", Null, Null)>>
                        /\ Return(GateResponse(json_, NoCredential))
                   ELSE /\ trace' = <<Call("checkApiKey", Null, key),
                                      Call("d1.first", "api_keys", key)>>
                        /\ pc' = "d1"
                        /\ response' = NoResponse

(***************************************************************************)
(* the D1 query settles: the rest of checkApiKey, the 401 / 403 answers,   *)
(* and the call of the catalog or (foreign identifier) of the index        *)
(***************************************************************************)
D1Reply ==
    /\ pc = "d1"
    /\ \E fault \in replies.d1Fault, now \in replies.now :
        LET res == checkApiKey(ApiKeyOf(req), fault, now)
        IN  /\ authResult' = res
            /\ clock' = now
            /\ faults' = IF fault THEN faults \cup {"d1"} ELSE faults
            /\ IF Returned(GateResponse(wantJson, res))
               THEN trace' = trace /\ Return(GateResponse(wantJson, res))
               ELSE AfterGate(isDoi, workId, nativeId, isGrobid)
    /\ UNCHANGED <<env, req, ident, ref, lookup, in_r2>>

(***************************************************************************)
(* fetchOpenAlexWork returns: the 404 / 502 answers, the split of the      *)
(* location reference at its first colon, and the call of the index        *)
(***************************************************************************)

\* the response that ends the request at the catalog stage, else NoResponse.
\* The path-keyed worker reads locId.indexOf without a check: an absent id
\* makes it throw.  The format-query worker answers 502 for an absent or
\* empty id.
CatalogResponse(endpoint, wantJson_, wid, a) ==
    IF ~a.ok \/ ~a.best_oa_location
    THEN jsonOrText(wantJson_, 404,
             [error |-> "No best_oa_location for this work", work_id |-> wid])
    ELSE IF endpoint = "works" /\ a.id = Null
    THEN Thrown("TypeError")
    ELSE IF endpoint = "work" /\ (a.id = Null \/ a.id = "")
    THEN jsonOrText(wantJson_, 502,
             [error |-> "Missing best_oa_location.id", work_id |-> wid])
    ELSE IF IsMalformed(a.id)
    THEN jsonOrText(wantJson_, 502,
             [error |-> "Unrecognized best_oa_location.id format",
              work_id |-> wid, best_oa_location_id |-> a.id])
    ELSE NoResponse

CatalogReply ==
    /\ pc = "catalog"
    /\ \E a \in replies.catalog[workId] :
        LET resp == CatalogResponse(req.endpoint, wantJson, workId, a)
        IN  IF Returned(resp)
            THEN /\ locId' = IF a.ok /\ a.best_oa_location THEN a.id ELSE Null
                 /\ UNCHANGED <<scheme, nativeId, trace>>
                 /\ Return(resp)
            ELSE /\ locId' = a.id
                 /\ scheme' = SchemeOf(a.id)
                 /\ nativeId' = NativeIdOf(a.id)
                 /\ Await(Call("dynamodb.query", TableName(isGrobid), NativeIdOf(a.id)),
                          "dynamodb")
    /\ UNCHANGED <<env, req, ident, clock, authResult, lookup, in_r2, faults>>

(***************************************************************************)
(* the DynamoDB query settles: the 500 answer, the uuid and the key, then  *)
(* the metadata branch (first tier probe, or the answer when there is no   *)
(* key) or the stream branch (404 without uuid, else the primary GET)      *)
(***************************************************************************)

\* url.toString() after url.searchParams.delete("json")
DownloadUrl(r) ==
    LET f == IF r.format = Null THEN "" ELSE "format=" \o r.format
        k == IF r.api_key = Null THEN "" ELSE "api_key=" \o r.api_key
        q == IF f # "" /\ k # "" THEN f \o "&" \o k ELSE f \o k
    IN  IF q = "" THEN r.path ELSE r.path \o "?" \o q

\* Metadata giving the download URL whenever there is a key, whatever the tiers hold
Metadata_UrlForEveryKey(inR2, inS3, id, found) ==
    LET key == R2KeyOf(id, isGrobid)
    IN  json(200,
            [work_id |-> rawId,
             work_api |-> IF workId # Null
                          THEN "https://api.openalex.org/works/" \o workId \o "?data-version=2"
                          ELSE Null,
             best_oa_location_id |-> locId,
             native_id |-> nativeId,
             native_id_namespace |-> scheme,
             mapping_found_in_dynamodb |-> found,
             file_uuid |-> IF id # Null /\ id # "" THEN id ELSE Null,
             file_key |-> key,
             in_r2 |-> inR2,
             in_s3 |-> inS3,
             download_url |-> IF key # Null THEN DownloadUrl(req) ELSE Null])

\* the JSON descriptor of the metadata mode
Metadata(inR2, inS3, id, found) ==
    LET key == R2KeyOf(id, isGrobid)
    IN  json(200,
            [work_id |-> rawId,
             work_api |-> IF workId # Null
                          THEN "https://api.openalex.org/works/" \o workId \o "?data-version=2"
                          ELSE Null,
             best_oa_location_id |-> locId,
             native_id |-> nativeId,
             native_id_namespace |-> scheme,
             mapping_found_in_dynamodb |-> found,
             file_uuid |-> IF id # Null /\ id # "" THEN id ELSE Null,
             file_key |-> key,
             in_r2 |-> inR2,
             in_s3 |-> inS3,
             download_url |-> IF key # Null /\ (inR2 \/ inS3)
                              THEN DownloadUrl(req) ELSE Null])

IndexFault ==
    jsonOrText(wantJson, 500,
        [error |-> "Internal server error (DynamoDB)",
         work_id |-> IF workId # Null THEN workId ELSE rawId,
         best_oa_location_id |-> locId,
         scheme |-> scheme,
         native_id |-> nativeId,
         table_name |-> TableName(isGrobid)])

\* the first probe of the primary tier in metadata mode: head() when the
\* binding has it, else get()
FirstProbe(hasHead, grobid, key) ==
    IF hasHead
    THEN Await(Call("r2.head", R2Bucket(grobid), key), "r2head")
    ELSE Await(Call("r2.get", R2Bucket(grobid), key), "r2probe")

DynamoReply ==
    /\ pc = "dynamodb"
    /\ \E fault \in replies.dynamoFault :
        IF fault
        THEN /\ UNCHANGED <<uuid, mappingFound, trace>>
             /\ faults' = faults \cup {"dynamodb"}
             /\ Return(IndexFault)
        ELSE LET id  == UuidOf(IndexItems(TableName(isGrobid), nativeId))
                 key == R2KeyOf(id, isGrobid)
             IN  /\ uuid' = id
                 /\ faults' = faults
                 /\ mappingFound' = (id # Null /\ id # "")
                 /\ IF wantJson
                    THEN IF key # Null
                         THEN FirstProbe(r2HasHead, isGrobid, key)
                         ELSE /\ trace' = trace
                              /\ Return(Metadata(FALSE, FALSE, id, FALSE))
                    ELSE IF key = Null
                         THEN /\ trace' = trace
                              /\ Return(TextResponse(404,
                                     FileType(isGrobid)
                                         \o " mapping not found (native_id not in DB)"))
                         ELSE Await(Call("r2.get", R2Bucket(isGrobid), key), "r2get")
    /\ UNCHANGED <<env, req, ident, clock, authResult, ref, in_r2>>

(***************************************************************************)
(* Metadata mode: the probes of the two tiers                              *)
(***************************************************************************)

\* whether the primary tier holds key in the bucket of the artifact kind
InR2(grobid, key) == <<R2Bucket(grobid), key>> \in r2

\* R2HeadReply answering at once when the primary tier holds the object
R2HeadReply_ShortCircuit ==
    /\ pc = "r2head"
    /\ LET key == R2KeyOf(uuid, isGrobid)
       IN  IF InR2(isGrobid, key)
           THEN /\ in_r2' = TRUE
                /\ trace' = trace
                /\ Return(Metadata(TRUE, FALSE, uuid, mappingFound))
           ELSE /\ in_r2' = in_r2
                /\ Await(Call("r2.get", R2Bucket(isGrobid), key), "r2probe")
    /\ UNCHANGED <<env, req, ident, clock, authResult, ref, lookup, faults>>

\* after head(): absent means a get() follows, present means the backup probe
R2HeadReply ==
    /\ pc = "r2head"
    /\ LET key == R2KeyOf(uuid, isGrobid)
       IN  IF InR2(isGrobid, key)
           THEN /\ in_r2' = TRUE
                /\ Await(Call("s3.head", S3Bucket(isGrobid), key), "s3head")
           ELSE /\ in_r2' = in_r2
                /\ Await(Call("r2.get", R2Bucket(isGrobid), key), "r2probe")
    /\ UNCHANGED <<env, req, ident, clock, authResult, ref, lookup, faults>>

\* after the get() used as an existence proxy: the backup probe follows
R2ProbeReply ==
    /\ pc = "r2probe"
    /\ LET key == R2KeyOf(uuid, isGrobid)
       IN  /\ in_r2' = InR2(isGrobid, key)
           /\ Await(Call("s3.head", S3Bucket(isGrobid), key), "s3head")
    /\ UNCHANGED <<env, req, ident, clock, authResult, ref, lookup, faults>>

\* after s3HeadObject: the JSON descriptor
S3HeadReply ==
    /\ pc = "s3head"
    /\ trace' = trace
    /\ Return(Metadata(in_r2, s3HeadObject(s3Status), uuid, mappingFound))
    /\ UNCHANGED <<env, req, ident, clock, authResult, ref, lookup, in_r2, faults>>

(***************************************************************************)
(* Stream mode: primary tier, then backup tier                             *)
(***************************************************************************)

StreamHeaders(contentType, contentLength) ==
    [ContentType |-> contentType,
     ContentDisposition |->
         ContentDisposition(SafeName(IF workId # Null THEN workId ELSE rawId, isGrobid)),
     CacheControl |-> "private, no-store",
     ContentLength |-> contentLength]

\* new Response(body, { status: 200, headers }): the body names its tier
Stream(tier, bucket, key, headers) ==
    [status |-> 200, mode |-> "stream",
     body |-> tier \o ":" \o bucket \o "/" \o key, headers |-> headers]

\* AfterPrimary with the short-circuit lost: the backup tier is asked anyway
AfterPrimary_AlwaysBackup(found, grobid, key) ==
    Await(Call("s3.get", S3Bucket(grobid), key), "s3get")

\* the step after the primary GET: serve the object, or go to the backup tier
AfterPrimary(found, grobid, key) ==
    IF found
    THEN /\ trace' = trace
         /\ Return(Stream("r2", R2Bucket(grobid), key,
                       StreamHeaders(ContentTypeOf(grobid), Null)))
    ELSE Await(Call("s3.get", S3Bucket(grobid), key), "s3get")

R2GetReply ==
    /\ pc = "r2get"
    /\ AfterPrimary(InR2(isGrobid, R2KeyOf(uuid, isGrobid)), isGrobid,
                    R2KeyOf(uuid, isGrobid))
    /\ UNCHANGED <<env, req, ident, clock, authResult, ref, lookup, in_r2, faults>>

\* after s3GetObject: serve the backup's body, or 404
S3GetReply ==
    /\ pc = "s3get"
    /\ trace' = trace
    /\ LET key == R2KeyOf(uuid, isGrobid)
       IN  IF s3GetObject(s3Status).ok
           THEN \E ct \in replies.s3ContentType, len \in replies.s3ContentLength :
                    Return(Stream("s3", S3Bucket(isGrobid), key,
                        StreamHeaders(IF ct # Null THEN ct ELSE ContentTypeOf(isGrobid),
                                      len)))
           ELSE Return(TextResponse(404,
                    FileType(isGrobid) \o " not found in R2 or S3 (" \o key \o ")"))
    /\ UNCHANGED <<env, req, ident, clock, authResult, ref, lookup, in_r2, faults>>

Next ==
    \/ \E r \in Requests : Fetch(r)
    \/ D1Reply
    \/ CatalogReply
    \/ DynamoReply
    \/ R2HeadReply
    \/ R2ProbeReply
    \/ S3HeadReply
    \/ R2GetReply
    \/ S3GetReply

Spec == Init /\ [][Next]_vars

(***************************************************************************)
(* Two concurrent requests.  The runtime calls fetch() once per request;   *)
(* the constants, parameters and locals of a call belong to that call.     *)
(* While a handler is suspended at an await the runtime may run the        *)
(* handler of another request up to its next await.  To compare a request  *)
(* handled concurrently with the same request handled alone, two requests  *)
(* are first handled alone, one after the other, and then together, the    *)
(* collaborators answering in one fixed way throughout.                    *)
(***************************************************************************)

\* the locals of the running call of fetch()
Locals ==
    [pc |-> pc, req |-> req, rawId |-> rawId, workId |-> workId,
     isGrobid |-> isGrobid, wantJson |-> wantJson, isDoi |-> isDoi,
     clock |-> clock, authResult |-> authResult, locId |-> locId,
     scheme |-> scheme, nativeId |-> nativeId, uuid |-> uuid,
     mappingFound |-> mappingFound, in_r2 |-> in_r2, trace |-> trace,
     faults |-> faults, response |-> response]

\* the locals of a call of fetch() that has not run yet
Fresh ==
    [pc |-> "idle", req |-> NoRequest, rawId |-> Null, workId |-> Null,
     isGrobid |-> FALSE, wantJson |-> FALSE, isDoi |-> FALSE,
     clock |-> 0, authResult |-> NoCredential, locId |-> Null,
     scheme |-> "", nativeId |-> "", uuid |-> Null,
     mappingFound |-> FALSE, in_r2 |-> FALSE, trace |-> <<>>,
     faults |-> {}, response |-> NoResponse]

\* the running call starts with the locals h
Starts(h) ==
    /\ pc = h.pc /\ req = h.req /\ rawId = h.rawId /\ workId = h.workId
    /\ isGrobid = h.isGrobid /\ wantJson = h.wantJson /\ isDoi = h.isDoi
    /\ clock = h.clock /\ authResult = h.authResult /\ locId = h.locId
    /\ scheme = h.scheme /\ nativeId = h.nativeId /\ uuid = h.uuid
    /\ mappingFound = h.mappingFound /\ in_r2 = h.in_r2 /\ trace = h.trace
    /\ faults = h.faults /\ response = h.response

\* the call whose locals are h becomes the running one
Resume(h) ==
    /\ pc' = h.pc /\ req' = h.req /\ rawId' = h.rawId /\ workId' = h.workId
    /\ isGrobid' = h.isGrobid /\ wantJson' = h.wantJson /\ isDoi' = h.isDoi
    /\ clock' = h.clock /\ authResult' = h.authResult /\ locId' = h.locId
    /\ scheme' = h.scheme /\ nativeId' = h.nativeId /\ uuid' = h.uuid
    /\ mappingFound' = h.mappingFound /\ in_r2' = h.in_r2 /\ trace' = h.trace
    /\ faults' = h.faults /\ response' = h.response

\* the requests handled in pairs: a download and a metadata request to each
\* worker, for different works and kinds
PairRequests ==
    {Request("works", "GET", "/works/W1/best_oa_location/pdf", Null, Null,
             [api_key |-> "k_ok", authorization |-> Null]),
     Request("works", "GET", "/works/w12/best_oa_location/parsed-pdf", Null, "TRUE",
             [api_key |-> "k_ok", authorization |-> Null]),
     Request("work", "GET", "/work/10.1a", "pdf", "TRUE",
             [api_key |-> Null, authorization |-> "Bearer k_ok"]),
     Request("work", "GET", "/work/W1", "parsed-pdf", Null,
             [api_key |-> "k_nocard", authorization |-> "Bearer k_ok"])}

\* the catalog's answers in the paired runs: a reference the index knows, or
\* no best_oa_location
PairCatalogAnswers ==
    {[ok |-> TRUE, best_oa_location |-> TRUE,  id |-> "doi:10.1/a"],
     [ok |-> TRUE, best_oa_location |-> FALSE, id |-> Null]}

\* collaborators with fixed contents: every call has one possible answer
FixedReplies ==
    {[d1Fault         |-> {FALSE},
      now             |-> {0},
      catalog         |-> [w \in WorkIds |-> {IF w = "W1" THEN a1 ELSE a12}],
      dynamoFault     |-> {FALSE},
      s3ContentType   |-> {ct},
      s3ContentLength |-> {Null}] :
        a1 \in PairCatalogAnswers, a12 \in PairCatalogAnswers, ct \in S3ContentTypes}

InitPair ==
    /\ r2 \in {{}, R2Objects}
    /\ r2HasHead \in BOOLEAN
    /\ s3Status \in {200, 404}
    /\ replies \in FixedReplies
    /\ parked = NoHandler
    /\ solo = <<>>
    /\ Starts(Fresh)

\* whether two requests are being handled together, and the slot (1 or 2)
\* of the running one
Paired == parked.slot # 0
RunningSlot == 3 - parked.slot

\* a request handled alone has been answered: its answer is recorded, and
\* after the second one the two requests are handled again, together
RecordSolo ==
    /\ ~Paired
    /\ Len(solo) < 2
    /\ pc = "done"
    /\ solo' = Append(solo, [req |-> req, response |-> response])
    /\ Resume(Fresh)
    /\ parked' = IF Len(solo) = 1 THEN [slot |-> 2, locals |-> Fresh] ELSE parked
    /\ UNCHANGED <<r2, r2HasHead, s3Status, replies>>

\* Switch with uuid held in a binding shared by all calls of fetch()
Switch_SharedUuid ==
    /\ Paired
    /\ parked' = [slot |-> RunningSlot, locals |-> Locals]
    /\ Resume([parked.locals EXCEPT !.uuid = uuid])
    /\ UNCHANGED <<r2, r2HasHead, s3Status, replies, solo>>

\* the running handler is suspended (or has returned) and the runtime runs
\* the other one: each call finds its own locals again
Switch ==
    /\ Paired
    /\ parked' = [slot |-> RunningSlot, locals |-> Locals]
    /\ Resume(parked.locals)
    /\ UNCHANGED <<r2, r2HasHead, s3Status, replies, solo>>

NextPair ==
    \/ \E r \in PairRequests : ~Paired /\ Len(solo) < 2 /\ Fetch(r)
    \/ Paired /\ Fetch(solo[RunningSlot].req)
    \/ D1Reply
    \/ CatalogReply
    \/ DynamoReply
    \/ R2HeadReply
    \/ R2ProbeReply
    \/ S3HeadReply
    \/ R2GetReply
    \/ S3GetReply
    \/ RecordSolo
    \/ Switch

SpecPair == InitPair /\ [][NextPair]_vars

(***************************************************************************)
(* The pure steps on their own: each takes its input from a bounded set of *)
(* strings, and the actions apply the step to it.                          *)
(***************************************************************************)

RECURSIVE Concat(_)
\* the pieces of a sequence of strings, joined
Concat(pieces) ==
    IF pieces = <<>> THEN ""
    ELSE pieces[1] \o Concat(SubSeq(pieces, 2, Len(pieces)))

\* the strings made of at most n pieces out of tokens
Strings(tokens, n) == {Concat(t) : t \in UNION {[1..k -> tokens] : k \in 0..n}}

\* the collaborators play no part
Quiet ==
    /\ r2 = {} /\ r2HasHead = FALSE /\ s3Status = 404
    /\ replies = AnyReply
    /\ parked = NoHandler
    /\ solo = <<>>

\* the pieces identifiers are made of: the letter in both cases, digits,
\* whitespace, URL prefixes, a slash
IdTokens == {"W", "w", "7", "42", " ", "https://openalex.org/", "http://h/", "/"}

InitNormalize ==
    /\ Quiet
    /\ \E e \in {"works", "work"}, x \in Strings(IdTokens, MaxIdTokens) :
          Starts([Fresh EXCEPT !.req = [NoRequest EXCEPT !.endpoint = e],
                               !.rawId = x])

\* workId = normalizeWorkId(rawId)
Normalize ==
    /\ pc = "idle"
    /\ workId' = normalizeWorkId(req.endpoint, rawId)
    /\ trace' = Append(trace, Call("normalizeWorkId", Null, rawId))
    /\ pc' = "normalized"
    /\ UNCHANGED <<env, req, rawId, isGrobid, wantJson, isDoi, clock, authResult,
                   ref, lookup, in_r2, faults, response>>

\* the identifier normalizeWorkId returned is given to it again
NormalizeAgain ==
    /\ pc = "normalized"
    /\ workId # Null
    /\ rawId' = workId
    /\ workId' = normalizeWorkId(req.endpoint, workId)
    /\ trace' = Append(trace, Call("normalizeWorkId", Null, workId))
    /\ pc' = "renormalized"
    /\ UNCHANGED <<env, req, isGrobid, wantJson, isDoi, clock, authResult,
                   ref, lookup, in_r2, faults, response>>

NextNormalize == Normalize \/ NormalizeAgain

SpecNormalize == InitNormalize /\ [][NextNormalize]_vars

\* the pieces location references are made of
RefTokens == {"doi", ":", "a:b", "10.1/a"}

\* a handler suspended at the catalog call for the work W1, after the gate
\* let its request pass
AtCatalog(e, j) ==
    [Fresh EXCEPT
        !.pc = "catalog",
        !.req = Request(e, "GET",
                        IF e = "works" THEN "/works/W1/best_oa_location/pdf"
                        ELSE "/work/W1",
                        IF e = "works" THEN Null ELSE "pdf",
                        IF j THEN "true" ELSE Null,
                        [api_key |-> "k_ok", authorization |-> Null]),
        !.rawId = "W1", !.workId = "W1", !.wantJson = j,
        !.authResult = checkApiKey("k_ok", FALSE, 0),
        !.trace = <<Call("checkApiKey", Null, "k_ok"),
                    Call("d1.first", "api_keys", "k_ok"),
                    Call("catalog.fetch", Null, "W1")>>]

\* the catalog answers with a best_oa_location whose id is any string of the
\* bounded set
InitSplit ==
    /\ r2 = {} /\ r2HasHead = FALSE /\ s3Status = 404
    /\ parked = NoHandler
    /\ solo = <<>>
    /\ \E x \in Strings(RefTokens, MaxRefTokens) :
          replies = [AnyReply EXCEPT
                        !.catalog = [w \in WorkIds |->
                            {[ok |-> TRUE, best_oa_location |-> TRUE, id |-> x]}]]
    /\ \E e \in {"works", "work"}, j \in BOOLEAN : Starts(AtCatalog(e, j))

NextSplit == CatalogReply

SpecSplit == InitSplit /\ [][NextSplit]_vars

\* the pieces of the identifiers downloads are named after: the nine
\* characters of the class [\/\\:*?"<>|], and pieces without any of them
NameTokens == {"/", "\\", ":", "*", "?", "\"", "<", ">", "|", "W1", "a_."}

\* a handler of the format-query worker suspended at the primary GET of a
\* download for the foreign identifier id, of the raw or the parsed kind
AtPrimaryGet(id, grobid) ==
    LET file == IF grobid THEN "u2" ELSE "u1"
    IN  [Fresh EXCEPT
            !.pc = "r2get",
            !.req = Request("work", "GET", "/work/" \o id,
                            IF grobid THEN "parsed-pdf" ELSE "pdf", Null,
                            [api_key |-> "k_ok", authorization |-> Null]),
            !.rawId = id, !.isGrobid = grobid, !.isDoi = TRUE,
            !.authResult = checkApiKey("k_ok", FALSE, 0),
            !.scheme = "doi", !.nativeId = id,
            !.uuid = file, !.mappingFound = TRUE,
            !.trace = <<Call("checkApiKey", Null, "k_ok"),
                        Call("d1.first", "api_keys", "k_ok"),
                        Call("dynamodb.query", TableName(grobid), id),
                        Call("r2.get", R2Bucket(grobid), R2KeyOf(file, grobid))>>]

\* the raw artifact is in the primary tier, the parsed one only in the
\* backup tier
InitSanitize ==
    /\ r2 = {<<"PDFS", "u1.pdf">>}
    /\ r2HasHead = TRUE
    /\ s3Status = 200
    /\ replies = [AnyReply EXCEPT !.s3ContentType = {Null},
                                  !.s3ContentLength = {"7"}]
    /\ parked = NoHandler
    /\ solo = <<>>
    /\ \E x \in Strings(NameTokens, MaxNameTokens), grobid \in BOOLEAN :
          Starts(AtPrimaryGet("10." \o x, grobid))

NextSanitize == R2GetReply \/ S3GetReply

SpecSanitize == InitSanitize /\ [][NextSanitize]_vars

(***************************************************************************)
(* A metadata request followed by the download it points to: the caller    *)
(* receives the descriptor and then sends the same request without the     *)
(* json flag (the download_url of the descriptor), with the same           *)
(* credential, to collaborators whose contents have not changed.           *)
(***************************************************************************)

\* metadata requests to both workers, the credential in the parameter or in
\* the header
FollowRequests ==
    {Request("works", "GET", "/works/" \o id \o "/best_oa_location/" \o kind, Null, j, c) :
        id \in {"W1", "w12"}, kind \in {"pdf", "parsed-pdf"}, j \in {"true", "TRUE"},
        c \in {[api_key |-> "k_ok", authorization |-> Null],
               [api_key |-> Null, authorization |-> "Bearer k_ok"]}}
    \cup
    {Request("work", "GET", "/work/" \o id, kind, j, c) :
        id \in {"W1", "10.1a"}, kind \in {"pdf", "parsed-pdf"}, j \in {"true", "TRUE"},
        c \in {[api_key |-> "k_ok", authorization |-> Null],
               [api_key |-> Null, authorization |-> "Bearer k_ok"]}}

\* collaborators with fixed contents: the catalog has one answer for every
\* work, a reference the index knows for one or both kinds, or none
FollowReplies ==
    {[d1Fault         |-> {FALSE},
      now             |-> {0},
      catalog         |-> [w \in WorkIds |-> {a}],
      dynamoFault     |-> {FALSE},
      s3ContentType   |-> {Null},
      s3ContentLength |-> {Null}] :
        a \in {[ok |-> TRUE, best_oa_location |-> TRUE,  id |-> "doi:10.1/a"],
               [ok |-> TRUE, best_oa_location |-> TRUE,  id |-> "doi:10.1a"],
               [ok |-> TRUE, best_oa_location |-> FALSE, id |-> Null]}}

InitFollow ==
    /\ r2 \in SUBSET R2Objects
    /\ r2HasHead \in BOOLEAN
    /\ s3Status \in S3Statuses
    /\ replies \in FollowReplies
    /\ parked = NoHandler
    /\ solo = <<>>
    /\ Starts(Fresh)

\* the caller has received the JSON descriptor of its metadata request
RecordMetadata ==
    /\ solo = <<>>
    /\ pc = "done"
    /\ response.status = 200 /\ response.mode = "json"
    /\ solo' = <<[req |-> req, response |-> response]>>
    /\ Resume(Fresh)
    /\ UNCHANGED <<r2, r2HasHead, s3Status, replies, parked>>

NextFollow ==
    \/ \E r \in FollowRequests : solo = <<>> /\ Fetch(r)
    \/ solo # <<>> /\ Fetch([solo[1].req EXCEPT !.json = Null])
    \/ D1Reply
    \/ CatalogReply
    \/ DynamoReply
    \/ R2HeadReply
    \/ R2ProbeReply
    \/ S3HeadReply
    \/ R2GetReply
    \/ S3GetReply
    \/ RecordMetadata

SpecFollow == InitFollow /\ [][NextFollow]_vars

(***************************************************************************)
(* The same work and artifact kind asked of both workers: first the         *)
(* path-keyed worker, then the format-query worker, with the same           *)
(* credential and response mode and with collaborators that give the same   *)
(* answers to both.                                                         *)
(***************************************************************************)

\* requests to the path-keyed worker for work identifiers (accepted or not)
TwinRequests ==
    {Request("works", "GET", "/works/" \o id \o "/best_oa_location/" \o kind, Null, j, c) :
        id \in {"W1", "w12", "x9"}, kind \in {"pdf", "parsed-pdf"}, j \in {Null, "TRUE"},
        c \in {[api_key |-> "k_ok", authorization |-> Null],
               [api_key |-> Null, authorization |-> "Bearer k_ok"],
               [api_key |-> "k_nocard", authorization |-> Null]}}

\* the request to the format-query worker for the identifier rid and the
\* kind of r, with the credential and the json flag of r
TwinOf(r, rid, grobid) ==
    Request("work", "GET", "/work/" \o rid, IF grobid THEN "parsed-pdf" ELSE "pdf",
            r.json, [api_key |-> r.api_key, authorization |-> r.authorization])

\* collaborators with fixed contents: the catalog has one answer for every
\* work, any of those it can give
TwinReplies ==
    {[d1Fault         |-> {FALSE},
      now             |-> {0},
      catalog         |-> [w \in WorkIds |-> {a}],
      dynamoFault     |-> {f},
      s3ContentType   |-> {Null},
      s3ContentLength |-> {Null}] :
        a \in CatalogAnswers, f \in BOOLEAN}

InitTwin ==
    /\ r2 \in {{}, R2Objects}
    /\ r2HasHead \in BOOLEAN
    /\ s3Status \in {200, 404}
    /\ replies \in TwinReplies
    /\ parked = NoHandler
    /\ solo = <<>>
    /\ Starts(Fresh)

\* the call of the path-keyed worker has ended: its calls, its outcome and
\* the values it resolved are kept for the comparison
RecordFirst ==
    /\ solo = <<>>
    /\ pc = "done"
    /\ solo' = <<[req      |-> req,
                  rawId    |-> rawId,
                  isGrobid |-> isGrobid,
                  response |-> response,
                  trace    |-> trace,
                  resolved |-> <<workId, locId, scheme, nativeId, uuid,
                                 mappingFound, in_r2>>]>>
    /\ Resume(Fresh)
    /\ UNCHANGED <<r2, r2HasHead, s3Status, replies, parked>>

NextTwin ==
    \/ \E r \in TwinRequests : solo = <<>> /\ Fetch(r)
    \/ solo # <<>> /\ Fetch(TwinOf(solo[1].req, solo[1].rawId, solo[1].isGrobid))
    \/ D1Reply
    \/ CatalogReply
    \/ DynamoReply
    \/ R2HeadReply
    \/ R2ProbeReply
    \/ S3HeadReply
    \/ R2GetReply
    \/ S3GetReply
    \/ RecordFirst

SpecTwin == InitTwin /\ [][NextTwin]_vars

(***************************************************************************)
(* Properties                                                              *)
(***************************************************************************)

Done == pc = "done"

\* the positions of the calls of the given operations in the trace
CallsOf(ops) == {i \in 1..Len(trace) : trace[i].op \in ops}

TierOps == {"r2.head", "r2.get", "s3.head", "s3.get"}
BackupOps == {"s3.head", "s3.get"}
LookupOps == {"catalog.fetch", "dynamodb.query"} \cup TierOps

\* the request passed routing: its identifier has been read from the path
Routed == pc # "idle" /\ rawId # Null

\* identifier normalization succeeded (a work id, or a foreign identifier)
Normalized == Routed /\ (workId # Null \/ isDoi)

StreamMode == Normalized /\ ~wantJson
MetadataMode == Normalized /\ wantJson

\* C1: in stream mode every call of the backup tier is a GET that directly
\* follows a GET of the primary tier for the same key which found nothing;
\* and a request whose primary GET found the object ends with that object
\* and without any call of the backup tier.
C1_PrimaryBeforeBackup ==
    StreamMode =>
        /\ \A i \in CallsOf(BackupOps) :
              /\ trace[i].op = "s3.get"
              /\ i > 1
              /\ trace[i - 1].op = "r2.get"
              /\ trace[i - 1].arg = trace[i].arg
              /\ <<trace[i - 1].target, trace[i - 1].arg>> \notin r2
        /\ \A i \in CallsOf({"r2.get"}) :
              (Done /\ <<trace[i].target, trace[i].arg>> \in r2) =>
                  /\ CallsOf(BackupOps) = {}
                  /\ response.status = 200
                  /\ response.mode = "stream"
                  /\ StartsWith(response.body, "r2:")

\* a stream-mode request served from the primary tier
C1_Witness ==
    /\ Done /\ StreamMode
    /\ \E i \in CallsOf({"r2.get"}) : <<trace[i].target, trace[i].arg>> \in r2
    /\ response.status = 200

\* C2: checkApiKey is called at most once; it is called exactly once in
\* every request whose identifier was normalized, as the first call of the
\* request; no catalog, index or tier call is made unless it returned valid
\* with payment eligibility; and a request it rejects ends with 401 (not
\* valid) or 403 (no payment eligibility) with no such call made.
C2_GateOnceBeforeLookups ==
    /\ Cardinality(CallsOf({"checkApiKey"})) <= 1
    /\ Cardinality(CallsOf({"d1.first"})) <= 1
    /\ CallsOf({"checkApiKey"}) # {} => Normalized /\ trace[1].op = "checkApiKey"
    /\ Normalized => CallsOf({"checkApiKey"}) = {1}
    /\ CallsOf(LookupOps) # {} =>
          /\ CallsOf({"checkApiKey"}) = {1}
          /\ \A i \in CallsOf(LookupOps) : i > 2
          /\ authResult.valid /\ authResult.hasCreditCard
    /\ (Done /\ Normalized /\ ~authResult.valid) =>
          response.status = 401 /\ CallsOf(LookupOps) = {}
    /\ (Done /\ Normalized /\ authResult.valid /\ ~authResult.hasCreditCard) =>
          response.status = 403 /\ CallsOf(LookupOps) = {}

\* a request rejected for payment eligibility after one credential lookup
C2_Witness ==
    /\ Done /\ Normalized
    /\ authResult.valid /\ ~authResult.hasCreditCard
    /\ response.status = 403
    /\ Len(trace) = 2

\* the request presents the key k: as api_key, or as bearer token when there
\* is no api_key
Presents(k) ==
    \/ req.api_key = k
    \/ req.api_key \in {Null, ""} /\ req.authorization = "Bearer " \o k

\* the original statement of C3: a routed GET request with a valid credential
\* that has no payment eligibility is answered 403 whatever the identifier
C3_Original ==
    (Done /\ Routed /\ req.method = "GET" /\ Presents("k_nocard") /\ "d1" \notin faults)
        => response.status = 403

\* C3 (amended): a GET request on a recognized path that presents a valid
\* credential without payment eligibility, the credential store answering,
\* gets 403 when its identifier is accepted by normalization, and gets 400
\* with no call made at all (the credential is not looked up) when it is not.
C3_NoPaymentEligibility ==
    (Done /\ Routed /\ req.method = "GET" /\ Presents("k_nocard") /\ "d1" \notin faults)
        => IF Normalized
           THEN response.status = 403 /\ CallsOf(LookupOps) = {}
           ELSE response.status = 400 /\ trace = <<>>

\* a request with an accepted identifier refused for payment eligibility
C3_Witness ==
    /\ Done /\ Normalized /\ req.method = "GET"
    /\ Presents("k_nocard") /\ "d1" \notin faults
    /\ response.status = 403

\* identifiers that fit in one path segment
SegmentIds == {id \in RawIds : IndexOf(id, "/") < 0}

\* the path of r has the shape its worker serves, written out from the two
\* route comments: /works/{id}/best_oa_location/{pdf|parsed-pdf}, /work/{id}
KnownPath(r) ==
    \E id \in SegmentIds :
        IF r.endpoint = "works"
        THEN \E kind \in {"pdf", "parsed-pdf"} :
                 StripLeadingSlashes(r.path)
                     = "works/" \o id \o "/best_oa_location/" \o kind
        ELSE StripLeadingSlashes(r.path) = "work/" \o id

\* the original statement of C4: an unknown path shape, or a kind token that
\* is neither pdf nor parsed-pdf, is answered 404 before any call
C4_Original ==
    (Done /\ req.method = "GET"
          /\ (\/ ~KnownPath(req)
              \/ req.endpoint = "work" /\ req.format \notin {Null, "", "pdf", "parsed-pdf"}))
        => response.status = 404 /\ trace = <<>>

\* C4 (amended): a GET request whose path is not of the worker's shape
\* (segment count, fixed segment, or the kind segment of the path-keyed
\* worker) is answered 404; on the format-query worker a request of the right
\* path whose format parameter is missing or neither pdf nor parsed-pdf is
\* answered 400; in both cases no credential lookup, catalog call, index
\* query or tier call is made.
C4_UnknownShape ==
    (Done /\ req.method = "GET") =>
        /\ ~KnownPath(req) =>
              response.status = 404 /\ response.body = "Not Found" /\ trace = <<>>
        /\ (KnownPath(req) /\ req.endpoint = "work"
                /\ req.format \notin {"pdf", "parsed-pdf"}) =>
              response.status = 400 /\ response.mode = "text" /\ trace = <<>>

\* a GET request of unknown path shape answered 404
C4_Witness ==
    /\ Done /\ req.method = "GET" /\ ~KnownPath(req)
    /\ response.status = 404 /\ trace = <<>>

\* C5: a stream-mode request to the format-query worker for a foreign
\* identifier (beginning "10.", a slash included) that the index maps to a
\* uuid, with a valid payment-eligible credential, no store faulting, the
\* artifact absent from the primary tier and present in the backup tier, is
\* answered 200 with the backup tier's body.
C5_ForeignFromBackup ==
    \A id \in RawIds :
        LET grobid == req.format = "parsed-pdf"
            id_    == UuidOf(IndexItems(TableName(grobid), id))
        IN  (/\ Done /\ faults = {}
             /\ req.endpoint = "work" /\ req.method = "GET"
             /\ req.format \in {"pdf", "parsed-pdf"} /\ req.json = Null
             /\ Presents("k_ok")
             /\ StartsWith(id, "10.") /\ req.path = "/work/" \o id
             /\ id_ # Null
             /\ <<R2Bucket(grobid), id_ \o FileExt(grobid)>> \notin r2
             /\ s3Status = 200)
            => /\ response.status = 200
               /\ response.mode = "stream"
               /\ StartsWith(response.body, "s3:")

\* the index query of this request has answered, without an item
IndexMiss ==
    /\ pc # "dynamodb"
    /\ "dynamodb" \notin faults
    /\ \E i \in CallsOf({"dynamodb.query"}) :
          IndexItems(trace[i].target, trace[i].arg) = <<>>

\* C6: when the index query returns no item, the request is never answered
\* as an index-store fault (500), and in metadata mode it is answered 200
\* with mapping_found_in_dynamodb false, file_uuid, file_key and download_url
\* null, both tier flags false, and without a call of either tier.
C6_IndexMissMetadata ==
    IndexMiss =>
        /\ Done
        /\ response.status # 500
        /\ response.mode # "exception"
        /\ CallsOf(TierOps) = {}
        /\ wantJson =>
              /\ response.status = 200
              /\ response.mode = "json"
              /\ response.body.mapping_found_in_dynamodb = FALSE
              /\ response.body.file_uuid = Null
              /\ response.body.file_key = Null
              /\ response.body.download_url = Null
              /\ response.body.in_r2 = FALSE
              /\ response.body.in_s3 = FALSE

\* a metadata-mode request answered after an index miss
C6_Witness ==
    /\ IndexMiss /\ wantJson /\ Done
    /\ response.status = 200
    /\ response.body.mapping_found_in_dynamodb = FALSE

\* the text the caller receives: the message of a JSON error object, the
\* whole body of a text response
DeliveredText ==
    IF response.mode = "json" THEN response.body.message ELSE response.body

\* the credential store has answered the lookup of this request
LookedUp == CallsOf({"d1.first"}) # {} /\ pc # "d1" /\ "d1" \notin faults

\* C7: a request presenting a credential whose expiry timestamp is less than
\* or equal to the time of the check is answered 401 and the response
\* carries the expiry timestamp, with the json flag set or not.
C7_ExpiredMessage ==
    (/\ Done /\ LookedUp /\ Presents("k_exp")
     /\ DateOf(ApiKeyRows["k_exp"].expires_at) <= clock)
        => /\ response.status = 401
           /\ Includes(DeliveredText, ApiKeyRows["k_exp"].expires_at)

\* C8: a metadata-mode request with a mapped uuid is answered 200 after
\* probing both tiers: the primary tier first, then exactly one HEAD of the
\* backup tier for the same key, whatever the primary probe found; in_r2 is
\* whether the primary tier holds the key, in_s3 whether the backup tier
\* answered 200.
C8_BothTiersProbed ==
    (Done /\ MetadataMode /\ uuid # Null) =>
        LET key == uuid \o FileExt(isGrobid)
        IN  /\ response.status = 200
            /\ response.mode = "json"
            /\ Cardinality(CallsOf({"s3.head"})) = 1
            /\ CallsOf({"s3.get"}) = {}
            /\ \A i \in CallsOf({"s3.head"}) :
                  /\ trace[i].target = S3Bucket(isGrobid)
                  /\ trace[i].arg = key
                  /\ i = Len(trace)
            /\ CallsOf({"r2.head", "r2.get"}) # {}
            /\ \A i \in CallsOf({"r2.head", "r2.get"}) :
                  trace[i].target = R2Bucket(isGrobid) /\ trace[i].arg = key
            /\ response.body.in_r2 = (<<R2Bucket(isGrobid), key>> \in r2)
            /\ response.body.in_s3 = (s3Status = 200)

\* the tier flags of the metadata answer are a and b
TierFlags(a, b) ==
    /\ Done /\ MetadataMode /\ uuid # Null
    /\ response.body.in_r2 = a /\ response.body.in_s3 = b

\* the primary tier holds the object, the backup tier was probed all the same
\* and does not
C8_Witness == TierFlags(TRUE, FALSE) /\ CallsOf({"s3.head"}) # {}

\* C9: a HEAD of the backup tier yields in_s3 = true for status 200 and false
\* for 403, 404 and every other status; a GET of the backup tier yields the
\* 200 stream of its body for status 200 and the ordinary 404 answer for 403,
\* 404 and every other status; the worker never throws for a backup status.
C9_BackupStatusFolding ==
    Done =>
        /\ CallsOf({"s3.head"}) # {} =>
              /\ response.status = 200
              /\ response.mode = "json"
              /\ response.body.in_s3 = (s3Status = 200)
        /\ CallsOf({"s3.get"}) # {} =>
              IF s3Status = 200
              THEN /\ response.status = 200
                   /\ response.mode = "stream"
                   /\ StartsWith(response.body, "s3:")
              ELSE /\ response.status = 404
                   /\ response.mode = "text"

\* the backup tier answered a HEAD with 403 and is reported absent
C9_Witness ==
    /\ Done /\ CallsOf({"s3.head"}) # {} /\ s3Status = 403
    /\ response.body.in_s3 = FALSE

\* a composite without colon, or whose first colon is its first or its last
\* character
MalformedComposite(l) ==
    \/ \A i \in 1..Len(l) : CharAt(l, i) # ":"
    \/ CharAt(l, 1) = ":"
    \/ /\ CharAt(l, Len(l)) = ":"
       /\ \A i \in 1..(Len(l) - 1) : CharAt(l, i) # ":"

\* C10: when the catalog returns a malformed composite location reference,
\* the request ends with status 502 and no index query or tier call is made.
C10_MalformedReference ==
    (locId # Null /\ MalformedComposite(locId)) =>
        /\ Done
        /\ response.status = 502
        /\ response.mode \in {"json", "text"}
        /\ CallsOf({"dynamodb.query"} \cup TierOps) = {}

\* the catalog returned a composite ending in its first colon
C10_Witness ==
    /\ Done /\ locId = "x:"
    /\ response.status = 502

\* the request is a GET to the format-query worker, of the accepted path and
\* format, whose identifier segment is id
WorkRequestFor(id) ==
    /\ req.endpoint = "work" /\ req.method = "GET"
    /\ req.format \in {"pdf", "parsed-pdf"}
    /\ StripLeadingSlashes(req.path) = "work/" \o id

\* the identifiers beginning "10." that fit in the identifier segment
ForeignIds == {id \in SegmentIds : StartsWith(id, "10.")}

\* the gate has let the request pass
GatePassed == pc # "d1" /\ authResult.valid /\ authResult.hasCreditCard

\* C11: for a request to the format-query worker whose identifier begins
\* "10.", no catalog call is ever made; the scheme is "doi" and the native_id
\* is the identifier exactly as it stands in the path; checkApiKey is the
\* first call; once the gate has let the request pass there is exactly one
\* index query, on the table of the artifact kind, for that native_id; and
\* the metadata answer reports that pair with no location reference.
C11_ForeignBypass ==
    \A id \in ForeignIds :
        WorkRequestFor(id) =>
            /\ CallsOf({"catalog.fetch"}) = {}
            /\ scheme = "doi"
            /\ nativeId = id
            /\ trace # <<>> /\ trace[1].op = "checkApiKey"
            /\ \A i \in CallsOf({"dynamodb.query"}) :
                  /\ trace[i].arg = id
                  /\ trace[i].target = TableName(req.format = "parsed-pdf")
            /\ GatePassed => Cardinality(CallsOf({"dynamodb.query"})) = 1
            /\ ~GatePassed => CallsOf({"dynamodb.query"}) = {}
            /\ (Done /\ response.mode = "json" /\ response.status = 200) =>
                  /\ response.body.native_id = id
                  /\ response.body.native_id_namespace = "doi"
                  /\ response.body.best_oa_location_id = Null

\* a foreign identifier served after the credential check and the index
\* query, without the catalog
C11_Witness ==
    /\ Done /\ WorkRequestFor("10.1a")
    /\ CallsOf({"checkApiKey"}) # {} /\ CallsOf({"dynamodb.query"}) # {}
    /\ CallsOf({"catalog.fetch"}) = {}
    /\ response.status = 200

\* a 200 answer carrying an artifact's bytes
Streamed == Done /\ response.mode = "stream" /\ response.status = 200

\* the identifier the download is named after: the canonical work id, or the
\* foreign identifier as received
DownloadId == IF workId # Null THEN workId ELSE rawId

\* C12: every stream-mode 200 response, from the primary or from the backup
\* tier, has the Content-Type of its artifact kind (application/pdf for the
\* raw kind, application/gzip for the parsed kind), a Content-Disposition
\* naming the sanitized filename, and a no-store Cache-Control.
C12_StreamHeaders ==
    Streamed =>
        /\ response.headers.ContentType
              = (IF isGrobid THEN "application/gzip" ELSE "application/pdf")
        /\ Includes(response.headers.ContentDisposition,
                    "filename=\"" \o ReplaceUnsafe(DownloadId) \o FileExt(isGrobid) \o "\"")
        /\ Includes(response.headers.CacheControl, "no-store")

\* what the caller of this request would be answered had the credential
\* store answered that the presented credential has no record
NotFoundOutcome == GateResponse(wantJson, checkApiKey("k_unknown", FALSE, clock))

\* C13: when the credential store faults during the lookup, checkApiKey
\* returns valid = false with an error detail of its own, and the response
\* the caller receives differs from the response for a credential without
\* record.
C13_FaultDistinct ==
    (Done /\ "d1" \in faults) =>
        /\ ~authResult.valid
        /\ authResult.error \notin {Null, "", "API key not found"}
        /\ \/ response.status # NotFoundOutcome.status
           \/ response.body # NotFoundOutcome.body

\* the operations each external collaborator offers
CollaboratorOps ==
    {{"d1.first"}, {"catalog.fetch"}, {"dynamodb.query"},
     {"r2.head", "r2.get"}, {"s3.head", "s3.get"}}

\* C14: within one request each collaborator (credential store, catalog,
\* index store, primary tier, backup tier) receives at most one call.
C14_NoSecondCall ==
    \A ops \in CollaboratorOps : Cardinality(CallsOf(ops)) <= 1

\* the credential strings requests are sent with
Keys == {"k_ok", "k_nocard", "k_exp", "k_unknown"}

\* the request carries a bearer Authorization header
HasBearer == \E k \in Keys : req.authorization = "Bearer " \o k

\* the lookups of the credential store made so far are one lookup, of k
LooksUp(k) ==
    /\ CallsOf({"d1.first"}) # {}
    /\ \A i \in CallsOf({"d1.first"}) : trace[i].arg = k

\* the request is answered 401 without any lookup of the credential store
RefusedWithoutLookup ==
    /\ Done
    /\ ~authResult.valid
    /\ response.status = 401
    /\ CallsOf({"d1.first"}) = {}

\* the original statement of C15: whenever the request carries an api_key
\* parameter and a bearer header, the value of the parameter is looked up
C15_Original ==
    (Normalized /\ req.api_key # Null /\ HasBearer) => LooksUp(req.api_key)

\* C15 (amended): when the request carries a non-empty api_key parameter
\* and a bearer Authorization header, the credential looked up is the value
\* of the parameter; an empty api_key parameter counts as absent, so the
\* bearer token is looked up; and a request with neither a non-empty
\* api_key nor a bearer token is answered 401 (valid = false) without any
\* lookup of the credential store.
C15_CredentialChoice ==
    Normalized =>
        /\ (req.api_key \notin {Null, ""} /\ HasBearer) => LooksUp(req.api_key)
        /\ \A k \in Keys :
              (req.api_key \in {Null, ""} /\ req.authorization = "Bearer " \o k)
                  => LooksUp(k)
        /\ (req.api_key \in {Null, ""} /\ ~HasBearer) => RefusedWithoutLookup

\* a request with both credentials, answered for the one in the parameter
C15_Witness ==
    /\ Done /\ Normalized
    /\ req.api_key = "k_nocard" /\ req.authorization = "Bearer k_ok"
    /\ LooksUp("k_nocard")
    /\ response.status = 403

\* two responses are the same in status, headers and body
SameResponse(a, b) ==
    /\ a.status = b.status
    /\ a.mode = b.mode
    /\ a.headers = b.headers
    /\ a.body = b.body

\* the handler with locals h, in the given slot, has returned the answer its
\* request got when handled alone
AnsweredAsAlone(h, slot) ==
    h.pc = "done" =>
        /\ h.req = solo[slot].req
        /\ SameResponse(h.response, solo[slot].response)

\* C16: when two requests are handled concurrently, interleaved in any way
\* at their awaits, with the collaborators' contents fixed, each of them is
\* answered exactly as it was when handled alone.
C16_SameAsAlone ==
    Paired =>
        /\ AnsweredAsAlone(Locals, RunningSlot)
        /\ AnsweredAsAlone(parked.locals, parked.slot)

\* a download served while the handler of another request, for another
\* artifact, is suspended between its calls of the tiers
C16_Witness ==
    /\ Paired /\ Done
    /\ response.status = 200 /\ response.mode = "stream"
    /\ SameResponse(response, solo[RunningSlot].response)
    /\ parked.locals.pc \in {"r2head", "r2probe", "s3head"}
    /\ parked.locals.uuid # uuid

\* a canonical work identifier: the capital letter W, then digits only
Canonical(id) ==
    /\ Len(id) >= 2
    /\ CharAt(id, 1) = "W"
    /\ \A i \in 2..Len(id) : CharAt(id, i) \in {"0", "1", "2", "3", "4", "5", "6", "7", "8", "9"}

\* C17: for every input normalizeWorkId accepts, the identifier it returns is
\* canonical and, given to normalizeWorkId again, is returned as it is
\* (normalize(normalize(x)) = normalize(x)); and a canonical identifier is
\* returned unchanged.  After NormalizeAgain rawId holds normalize(x) and
\* workId holds normalize(normalize(x)).
C17_Idempotent ==
    /\ (pc = "normalized" /\ workId # Null) => Canonical(workId)
    /\ (pc = "normalized" /\ Canonical(rawId)) => workId = rawId
    /\ pc = "renormalized" => workId = rawId

\* a URL ending in a lower-case short code, normalized twice
C17_Witness ==
    /\ pc = "renormalized"
    /\ trace[1].arg = "https://openalex.org/w42"
    /\ trace[2].arg = "W42"
    /\ workId = "W42"

\* the first colon of l exists and is neither its first nor its last character
WellFormed(l) ==
    \E i \in 2..(Len(l) - 1) :
        /\ CharAt(l, i) = ":"
        /\ \A j \in 1..(i - 1) : CharAt(l, j) # ":"

\* C18: every well-formed composite reference returned by the catalog is
\* split into a scheme and a native_id, both non-empty, the scheme without
\* colon, such that scheme, ":" and native_id joined are the reference again;
\* the native_id is what the index is then asked for.
C18_SplitRoundTrip ==
    (pc # "catalog" /\ locId # Null /\ WellFormed(locId)) =>
        /\ pc = "dynamodb"
        /\ scheme \o ":" \o nativeId = locId
        /\ scheme # "" /\ nativeId # ""
        /\ \A i \in 1..Len(scheme) : CharAt(scheme, i) # ":"
        /\ trace[Len(trace)].op = "dynamodb.query"
        /\ trace[Len(trace)].arg = nativeId

\* a reference whose native_id holds a further colon
C18_Witness ==
    /\ pc = "dynamodb"
    /\ locId = "doi:a:b"
    /\ scheme = "doi" /\ nativeId = "a:b"

\* the nine characters the claim names
NamedChars == {"/", "\\", ":", "*", "?", "\"", "<", ">", "|"}

RECURSIVE Without(_, _)
\* s without the characters of the set chars
Without(s, chars) ==
    IF s = "" THEN ""
    ELSE (IF CharAt(s, 1) \in chars THEN "" ELSE CharAt(s, 1))
             \o Without(SliceFrom(s, 1), chars)

\* the filename of the response: the quoted filename parameter of its
\* Content-Disposition
Filename == Split(response.headers.ContentDisposition, "\"")[2]

\* the original statement of C19: the download filename (before the
\* extension of the artifact kind) is the identifier without the characters
\* / \ : * ? " < > | and nothing else is changed
C19_Original ==
    Streamed => Filename = Without(DownloadId, NamedChars) \o FileExt(isGrobid)

\* C19 (amended): the download filename is the identifier in which every
\* occurrence of / \ : * ? " < > | is replaced by an underscore, followed by
\* the extension of the artifact kind: the length of the identifier is kept,
\* every other character stays as it is and where it is.
C19_Replaced ==
    Streamed =>
        /\ Len(Filename) = Len(DownloadId) + Len(FileExt(isGrobid))
        /\ \A i \in 1..Len(DownloadId) :
              CharAt(Filename, i) = (IF CharAt(DownloadId, i) \in NamedChars
                                     THEN "_" ELSE CharAt(DownloadId, i))
        /\ SubSeq(Filename, Len(DownloadId) + 1, Len(Filename))
              = (IF isGrobid THEN ".xml.gz" ELSE ".pdf")

\* a download named after an identifier with two of the characters, one
\* after the other, and an underscore of its own
C19_Witness ==
    /\ Streamed
    /\ rawId = "10.:/a_."
    /\ Filename = "10.__a_..pdf"

\* C20: in metadata mode the primary tier is probed with head() when the
\* binding offers it and with get() only when it does not: with head()
\* offered no get() of the primary tier is made, also after head() reported
\* the object absent; without head() no head() is made.
C20_ProbeOnly ==
    MetadataMode =>
        /\ r2HasHead => CallsOf({"r2.get"}) = {}
        /\ ~r2HasHead => CallsOf({"r2.head"}) = {}
        /\ (Done /\ uuid # Null) =>
              CallsOf(IF r2HasHead THEN {"r2.head"} ELSE {"r2.get"}) # {}

\* the catalog has answered, and not with a best_oa_location that has an id:
\* its status was a non-success one, or best_oa_location was missing, or the
\* id of best_oa_location was
NoLocationId ==
    /\ CallsOf({"catalog.fetch"}) # {}
    /\ pc # "catalog"
    /\ locId = Null

\* C21: on both workers, when the catalog answers with a non-success status,
\* without best_oa_location, or with a best_oa_location without id, the
\* handler returns an error response (404 in the first two cases, a terminal
\* error status in the third), does not throw, and makes no index query and
\* no tier call.
C21_CatalogFailClosed ==
    NoLocationId =>
        /\ Done
        /\ response.mode \in {"text", "json"}
        /\ response.status \in {404, 502}
        /\ CallsOf({"dynamodb.query"} \cup TierOps) = {}

\* the URL of the request r: its path and its query parameters
RequestUrl(r) ==
    LET params == <<IF r.format = Null THEN "" ELSE "format=" \o r.format,
                    IF r.json = Null THEN "" ELSE "json=" \o r.json,
                    IF r.api_key = Null THEN "" ELSE "api_key=" \o r.api_key>>
        given  == SelectSeq(params, LAMBDA x : x # "")
        Join[i \in 0..Len(given)] ==
            IF i = 0 THEN ""
            ELSE Join[i - 1] \o (IF i = 1 THEN "?" ELSE "&") \o given[i]
    IN  r.path \o Join[Len(given)]

\* the descriptor the caller received before it asked for the download
Descriptor == solo[1].response.body

\* C22: in metadata mode download_url is non-null exactly when a uuid was
\* mapped and in_r2 or in_s3 is true, and is then the URL of the request
\* without the json parameter; the request sent to that URL in stream mode,
\* with the same credential and the stores unchanged, is answered 200 with
\* the artifact when download_url was non-null, and 404 when download_url was
\* null with a mapped uuid.
C22_DownloadUrl ==
    /\ (solo = <<>> /\ Done /\ MetadataMode /\ response.status = 200) =>
          /\ response.body.download_url # Null
                <=> (/\ response.body.file_uuid # Null
                     /\ (response.body.in_r2 \/ response.body.in_s3))
          /\ response.body.download_url # Null =>
                response.body.download_url = RequestUrl([req EXCEPT !.json = Null])
    /\ (solo # <<>> /\ pc # "idle") =>
          /\ req = [solo[1].req EXCEPT !.json = Null]
          /\ ~wantJson
    /\ (solo # <<>> /\ Done) =>
          /\ Descriptor.download_url # Null =>
                response.status = 200 /\ response.mode = "stream"
          /\ (Descriptor.download_url = Null /\ Descriptor.file_uuid # Null) =>
                response.status = 404

\* a descriptor reporting the artifact in the backup tier only, and the
\* download sent to its download_url served from there
C22_Witness ==
    /\ solo # <<>> /\ Done
    /\ Descriptor.download_url = "/work/10.1a?format=pdf"
    /\ ~Descriptor.in_r2 /\ Descriptor.in_s3
    /\ req.authorization = "Bearer k_ok"
    /\ response.status = 200
    /\ StartsWith(response.body, "s3:")

\* checkApiKey has been called and has returned valid with a card on file
Eligible ==
    /\ CallsOf({"checkApiKey"}) # {}
    /\ pc # "d1"
    /\ authResult.valid
    /\ authResult.hasCreditCard

\* the calls that read the body of an artifact from a tier
BodyReads == {"r2.get", "s3.get"}

\* C23: on both workers and on every path, the foreign-identifier path
\* included, a 200 response (JSON descriptor or artifact stream) is returned,
\* and the body of an artifact is read from a tier, only in a request whose
\* checkApiKey call returned valid with a card on file.
C23_NothingWithoutEligibility ==
    /\ (Returned(response) /\ response.status = 200) => Eligible
    /\ CallsOf(BodyReads) # {} => Eligible
    /\ (Done /\ ~Eligible) =>
          /\ response.status >= 400
          /\ response.mode # "stream"

\* a foreign identifier streamed from the backup tier after the gate let the
\* request pass
C23_Witness ==
    /\ Done /\ isDoi /\ Eligible
    /\ response.status = 200 /\ response.mode = "stream"
    /\ CallsOf({"s3.get"}) # {}

\* the descriptor d without the field that names the endpoint it came from
Resolution(d) == [d EXCEPT !.download_url = (d.download_url # Null)]

\* C24: for a work identifier and an artifact kind, with the same credential,
\* response mode and collaborator answers, the format-query worker makes the
\* same sequence of external calls as the path-keyed worker and returns the
\* same status and the same resolved values.
C24_EndpointsEquivalent ==
    (solo # <<>> /\ Done) =>
        /\ trace = solo[1].trace
        /\ response.status = solo[1].response.status
        /\ response.mode = solo[1].response.mode
        /\ <<workId, locId, scheme, nativeId, uuid, mappingFound, in_r2>>
               = solo[1].resolved
        /\ (response.mode = "json" /\ response.status = 200) =>
               Resolution(response.body) = Resolution(solo[1].response.body)
        /\ response.mode = "stream" =>
               /\ response.body = solo[1].response.body
               /\ response.headers = solo[1].response.headers

=============================================================================
